---- MODULE Spec2Model ----
(***************************************************************************)
(* Model of src/src/c_wrapper/event.cpp (pyopencl C wrapper): one Event    *)
(* Handle (event / nanny_event) around one native cl_event, its optional   *)
(* finalize payload (event_private / nanny_event_private), the threads     *)
(* that call wait(), the destructing thread, the driver completion         *)
(* callback and the detached monitor thread.                               *)
(***************************************************************************)
EXTENDS Integers, FiniteSets, Sequences, TLC

\* ---------------------------------------------------------------- bounds
NumWaiters == 2        \* threads that may call wait() on the handle
WardRef0   == 1        \* external reference count of the ward before construction
NativeRef0 == 1        \* reference count of the native event when it is handed over
TokRef0    == 1        \* external reference count of the callback token before the call
MaxWaitFor == 2        \* largest num_wait_for passed to wait_for_events

Waiters == 1..NumWaiters
Null    == "nullptr"
W       == "W"

VARIABLES
    \* --- event handle (class event)
    hstate,        \* "none" | "alive" | "destroying" | "destroyed" | "ctor_failed"
    m_p,           \* event::m_p : Null or "p"
    retainArg,     \* the retain argument of the constructor
    ctorErr,       \* exception that left the constructor: "none" | "NativeApiError"
    \* --- payload (event_private / nanny_event_private)
    pstate,        \* "none" | "live" | "deleted"
    m_finished,    \* event_private::m_finished
    m_ward,        \* nanny_event_private::m_ward
    \* --- foreign runtime and driver
    wardRef,       \* external reference count of the ward (py::ref / py::deref)
    nativeRef,     \* reference count of the native event
    extHeld,       \* the creator of the native event still holds its own reference
    evComplete,    \* the native event has reached CL_COMPLETE
    drvOk,         \* native calls currently succeed (FALSE: they return an error status)
    support_cb,    \* the driver supports completion callbacks
    \* --- threads
    wpc,           \* wpc[t], t in Waiters: position inside event::wait()
    dpc,           \* position of the destructing thread inside event::~event()
    cbpc,          \* position of the completion callback closure
    monpc,         \* position of the detached monitor thread
    \* --- observation (history) variables
    initFinished,  \* value m_finished had when the payload was constructed
    finishCount,   \* number of executions of the body of finish()
    deletedBy,     \* who applied a delete expression to the payload, in order
    uaf,           \* the payload was accessed while not live
    cfReturned,    \* some call_finish() has returned
    cbReg,         \* number of completion callbacks registered by release_private
    regFailed,     \* callback registration failed in release_private
    monSpawned,    \* number of monitor threads spawned
    warnings,      \* diagnostics written to std::cerr
    retainAttempts,  \* calls of clRetainEvent
    releaseAttempts, \* calls of clReleaseEvent
    waitCalled,    \* wait() has been entered at least once
    \* --- C wrapper calls (event__set_callback, queries, wait_for_events)
    tokRef,        \* external reference count of the callback token (pyobj)
    tokTaken,      \* number of py::ref(pyobj) made by event__set_callback
    tokReleased,   \* number of py::deref(pyobj) made on behalf of event__set_callback
    ucb,           \* user callback: "none" | "registered" | "called" | "done" | "failed"
    scbRet,        \* what event__set_callback returned: "none" | "success" | "error"
    qLast,         \* the last query made: <<function, field>>, or << >>
    qErr,          \* error raised by the last query: "none" | "InvalidArgument" | "NativeApiError"
    qNative,       \* native query issued by the last query: the field, or "none"
    qOut,          \* the caller's output slot: << >> (never assigned) or <<function, field>>
    wfeN,          \* num_wait_for of the wait_for_events call in progress or last made
    wfe            \* wait_for_events: "none" | "in_native" | "success" | "error"

handleVars  == <<hstate, m_p, retainArg, ctorErr>>
payloadVars == <<pstate, m_finished, m_ward, wardRef>>
envVars     == <<evComplete, drvOk, support_cb, extHeld>>
thrVars     == <<wpc, dpc, cbpc, monpc>>
dispVars    == <<cbReg, regFailed, monSpawned>>
histVars    == <<initFinished, finishCount, deletedBy, uaf, cfReturned,
                 warnings, retainAttempts, releaseAttempts, waitCalled>>
apiVars     == <<tokRef, tokTaken, tokReleased, ucb, scbRet, qLast, qErr, qNative, qOut,
                 wfeN, wfe>>
vars == <<handleVars, payloadVars, nativeRef, envVars, thrVars, dispVars, histVars, apiVars>>

\* ------------------------------------------------------- collaborators
\* pyopencl_call_guarded: a failing native call raises clerror
call_guarded(ok) == IF ok THEN "ok" ELSE "throw"

\* pyopencl_call_guarded_cleanup: a failing native call is reported, not raised
call_guarded_cleanup(ok) == IF ok THEN "ok" ELSE "warn"

\* clWaitForEvents on the singleton set {evt} may return: with success once the
\* event is complete, with an error status when the driver fails the call or
\* the handle is no longer referenced
WaitOutcomes  == (IF evComplete /\ drvOk /\ nativeRef > 0 THEN {TRUE} ELSE {})
                 \cup (IF ~drvOk \/ nativeRef = 0 THEN {FALSE} ELSE {})
WaitCanReturn == WaitOutcomes # {}

\* event::set_callback(CL_COMPLETE, f): registers f or raises clerror
set_callback == call_guarded(drvOk)

\* ------------------------------------------------------------ payload
\* event_private::is_finished
is_finished == m_finished

\* any access to the payload object through a pointer
Touch == uaf' = (uaf \/ pstate # "live")

\* delete p (virtual ~event_private, ~nanny_event_private: empty bodies)
DeleteP(who) == /\ pstate' = "deleted"
                /\ deletedBy' = Append(deletedBy, who)

\* event_private::finish, the body that runs for every payload: the virtual
\* finish() is not overridden by nanny_event_private
finish == /\ finishCount' = finishCount + 1
          /\ UNCHANGED <<m_ward, wardRef>>

\* nanny_event_private::finished (private, not virtual, no caller)
finished == /\ m_ward' = Null
            /\ wardRef' = IF m_ward # Null THEN wardRef - 1 ELSE wardRef

\* number of delete expressions applied to the payload
deleteCount == Len(deletedBy)

\* nanny_event::get_ward
get_ward == IF m_p = Null THEN Null ELSE m_ward

Init ==
    /\ hstate = "none" /\ m_p = Null /\ retainArg = FALSE /\ ctorErr = "none"
    /\ pstate = "none" /\ m_finished = FALSE /\ m_ward = Null
    /\ wardRef = WardRef0 /\ nativeRef = NativeRef0 /\ extHeld = FALSE
    /\ evComplete = FALSE /\ drvOk \in BOOLEAN /\ support_cb \in BOOLEAN
    /\ wpc = [t \in Waiters |-> "idle"] /\ dpc = "idle"
    /\ cbpc = "none" /\ monpc = "none"
    /\ initFinished = FALSE /\ finishCount = 0 /\ deletedBy = <<>> /\ uaf = FALSE
    /\ cfReturned = FALSE /\ cbReg = 0 /\ regFailed = FALSE /\ monSpawned = 0
    /\ warnings = {} /\ retainAttempts = 0 /\ releaseAttempts = 0
    /\ waitCalled = FALSE
    /\ tokRef = TokRef0 /\ tokTaken = 0 /\ tokReleased = 0 /\ ucb = "none"
    /\ scbRet = "none"
    /\ qLast = << >> /\ qErr = "none" /\ qNative = "none" /\ qOut = << >>
    /\ wfeN = 0 /\ wfe = "none"

\* -------------------------------------------------------- environment
\* the device finishes the operation
NativeComplete ==
    /\ ~evComplete
    /\ evComplete' = TRUE
    /\ UNCHANGED <<handleVars, payloadVars, nativeRef, drvOk, support_cb, extHeld,
                   thrVars, dispVars, histVars>>
    /\ UNCHANGED apiVars

\* the driver starts or stops failing native calls (dead context, ...)
DriverFlip ==
    /\ drvOk' = ~drvOk
    /\ UNCHANGED <<handleVars, payloadVars, nativeRef, evComplete, support_cb, extHeld,
                   thrVars, dispVars, histVars>>
    /\ UNCHANGED apiVars

\* the creator of the native event drops its own reference
ExternalRelease ==
    /\ extHeld
    /\ extHeld' = FALSE
    /\ nativeRef' = nativeRef - 1
    /\ UNCHANGED <<handleVars, payloadVars, evComplete, drvOk, support_cb,
                   thrVars, dispVars, histVars>>
    /\ UNCHANGED apiVars

\* -------------------------------------------------------- construction
\* the catch block without the delete: the payload leaks
CtorCatch_Leak(hasP) ==
    /\ hstate' = "ctor_failed"
    /\ ctorErr' = "NativeApiError"
    /\ pstate' = IF hasP THEN "live" ELSE "none"
    /\ UNCHANGED deletedBy

\* the catch block of event::event: delete m_p; throw
CtorCatch(hasP) ==
    /\ hstate' = "ctor_failed"
    /\ ctorErr' = "NativeApiError"
    /\ pstate' = IF hasP THEN "deleted" ELSE "none"
    /\ deletedBy' = IF hasP THEN Append(deletedBy, "ctor") ELSE deletedBy

\* nanny_event::nanny_event -> nanny_event_private(ward) -> event::event.
\* garbage is the content of the storage of m_finished, which no constructor
\* initialises.
Construct(ward, retain, garbage) ==
    /\ hstate = "none"
    /\ retainArg' = retain
    /\ m_p' = IF ward # Null THEN "p" ELSE Null
    /\ m_ward' = ward
    /\ wardRef' = IF ward # Null THEN wardRef + 1 ELSE wardRef
    /\ m_finished' = IF ward # Null THEN garbage ELSE FALSE
    /\ initFinished' = IF ward # Null THEN garbage ELSE FALSE
    /\ IF retain
       THEN /\ retainAttempts' = retainAttempts + 1
            /\ IF call_guarded(drvOk) = "ok"
               THEN /\ nativeRef' = nativeRef + 1
                    /\ extHeld' = TRUE
                    /\ hstate' = "alive"
                    /\ pstate' = IF ward # Null THEN "live" ELSE "none"
                    /\ UNCHANGED <<ctorErr, deletedBy>>
               ELSE /\ CtorCatch(ward # Null)
                    /\ UNCHANGED <<nativeRef, extHeld>>
       ELSE /\ hstate' = "alive"
            /\ pstate' = IF ward # Null THEN "live" ELSE "none"
            /\ UNCHANGED <<retainAttempts, nativeRef, extHeld, ctorErr, deletedBy>>
    /\ UNCHANGED <<evComplete, drvOk, support_cb, thrVars, dispVars,
                   finishCount, uaf, cfReturned, warnings, releaseAttempts, waitCalled>>
    /\ UNCHANGED apiVars

Constructor == \E ward \in {Null, W}, retain \in BOOLEAN, garbage \in BOOLEAN :
                   Construct(ward, retain, garbage)

\* ------------------------------------------------------------- wait()
\* call_finish with the test of the exchanged value inverted
call_finish_inverted(old, won, lost) == IF old THEN won ELSE lost

\* event_private::call_finish, after m_finished.exchange(true) returned old:
\* the caller goes on to finish() only when old was false
call_finish(old, won, lost) == IF old THEN lost ELSE won

WaitBegin(t) ==
    /\ hstate = "alive"
    /\ wpc[t] = "idle"
    /\ wpc' = [wpc EXCEPT ![t] = "waiting"]
    /\ waitCalled' = TRUE
    /\ UNCHANGED <<handleVars, payloadVars, nativeRef, envVars, dpc, cbpc, monpc, dispVars,
                   initFinished, finishCount, deletedBy, uaf, cfReturned,
                   warnings, retainAttempts, releaseAttempts>>
    /\ UNCHANGED apiVars

\* wait() with the native wait made through the cleanup guard: a failed wait
\* is reported and the payload is finalized all the same
WaitNative_Swallow(t) ==
    /\ wpc[t] = "waiting"
    /\ WaitCanReturn
    /\ wpc' = [wpc EXCEPT ![t] = IF m_p # Null THEN "call_finish" ELSE "returned"]
    /\ UNCHANGED <<handleVars, payloadVars, nativeRef, envVars, dpc, cbpc, monpc, dispVars,
                   histVars>>
    /\ UNCHANGED apiVars

\* pyopencl_call_guarded(clWaitForEvents, len_arg(data())); if (m_p) ...
WaitNative(t) ==
    /\ wpc[t] = "waiting"
    /\ \E ok \in WaitOutcomes :
          wpc' = [wpc EXCEPT ![t] =
                     IF call_guarded(ok) = "throw" THEN "threw"
                     ELSE IF m_p # Null THEN "call_finish" ELSE "returned"]
    /\ UNCHANGED <<handleVars, payloadVars, nativeRef, envVars, dpc, cbpc, monpc, dispVars,
                   histVars>>
    /\ UNCHANGED apiVars

\* m_p->call_finish(), the atomic exchange
WaitCallFinish(t) ==
    /\ wpc[t] = "call_finish"
    /\ Touch
    /\ m_finished' = TRUE
    /\ wpc' = [wpc EXCEPT ![t] = call_finish(m_finished, "finish", "returned")]
    /\ cfReturned' = (cfReturned \/ m_finished)
    /\ UNCHANGED <<handleVars, pstate, m_ward, wardRef, nativeRef, envVars, dpc, cbpc, monpc,
                   dispVars, initFinished, finishCount, deletedBy,
                   warnings, retainAttempts, releaseAttempts, waitCalled>>
    /\ UNCHANGED apiVars

\* m_p->call_finish(), the call of finish() by the winner of the exchange
WaitFinish(t) ==
    /\ wpc[t] = "finish"
    /\ Touch
    /\ finish
    /\ wpc' = [wpc EXCEPT ![t] = "returned"]
    /\ cfReturned' = TRUE
    /\ UNCHANGED <<handleVars, pstate, m_finished, nativeRef, envVars, dpc, cbpc, monpc,
                   dispVars, initFinished, deletedBy,
                   warnings, retainAttempts, releaseAttempts, waitCalled>>
    /\ UNCHANGED apiVars

\* the caller of wait() has its result and may call again
WaitReset(t) ==
    /\ wpc[t] \in {"returned", "threw"}
    /\ wpc' = [wpc EXCEPT ![t] = "idle"]
    /\ UNCHANGED <<handleVars, payloadVars, nativeRef, envVars, dpc, cbpc, monpc, dispVars,
                   histVars>>
    /\ UNCHANGED apiVars

\* --------------------------------------------------------- destruction
\* the last owning reference to the handle goes away: no wait() is in progress
DtorBegin ==
    /\ hstate = "alive"
    /\ \A t \in Waiters : wpc[t] \in {"idle", "returned", "threw"}
    /\ hstate' = "destroying"
    /\ dpc' = "release_private"
    /\ UNCHANGED <<m_p, retainArg, ctorErr, payloadVars, nativeRef, envVars, wpc, cbpc, monpc,
                   dispVars, histVars>>
    /\ UNCHANGED apiVars

\* release_private: if (!m_p) return;
ReleaseNoPayload ==
    /\ m_p = Null
    /\ UNCHANGED <<payloadVars, cbpc, monpc, dispVars, deletedBy, uaf, warnings>>

\* the already-finished branch without its return: the deleted payload is
\* handed to a monitor thread as well
ReleaseFinished_NoReturn ==
    /\ m_p # Null
    /\ Touch
    /\ is_finished
    /\ DeleteP("dtor")
    /\ monSpawned' = monSpawned + 1
    /\ monpc' = "wait"
    /\ UNCHANGED <<m_finished, m_ward, wardRef, cbpc, cbReg, regFailed, warnings>>

\* release_private: if (m_p->is_finished()) { delete m_p; return; }
ReleaseFinished ==
    /\ m_p # Null
    /\ Touch
    /\ is_finished
    /\ DeleteP("dtor")
    /\ UNCHANGED <<m_finished, m_ward, wardRef, cbpc, monpc, dispVars, warnings>>

\* the registration failure handled by falling back to the monitor thread
RegisterCallback_Fallback ==
    /\ m_p # Null
    /\ Touch
    /\ ~is_finished
    /\ support_cb
    /\ IF set_callback = "ok"
       THEN /\ cbReg' = cbReg + 1
            /\ cbpc' = "registered"
            /\ UNCHANGED <<regFailed, warnings, monpc, monSpawned>>
       ELSE /\ regFailed' = TRUE
            /\ warnings' = warnings \cup {"set_callback"}
            /\ monSpawned' = monSpawned + 1
            /\ monpc' = "wait"
            /\ UNCHANGED <<cbReg, cbpc>>
    /\ UNCHANGED <<payloadVars, deletedBy>>

\* release_private: if (support_cb) { try { set_callback(CL_COMPLETE, [p] ...) }
\*                                    catch (const clerror &e) { std::cerr << ... } }
RegisterCallback ==
    /\ m_p # Null
    /\ Touch
    /\ ~is_finished
    /\ support_cb
    /\ IF set_callback = "ok"
       THEN /\ cbReg' = cbReg + 1
            /\ cbpc' = "registered"
            /\ UNCHANGED <<regFailed, warnings>>
       ELSE /\ regFailed' = TRUE
            /\ warnings' = warnings \cup {"set_callback"}
            /\ UNCHANGED <<cbReg, cbpc>>
    /\ UNCHANGED <<payloadVars, monpc, monSpawned, deletedBy>>

\* the destructing thread itself waits for the native event before it hands
\* the payload to the monitor thread
SpawnMonitor_Inline ==
    /\ m_p # Null
    /\ Touch
    /\ ~is_finished
    /\ ~support_cb
    /\ WaitCanReturn
    /\ monSpawned' = monSpawned + 1
    /\ monpc' = "wait"
    /\ UNCHANGED <<payloadVars, cbpc, cbReg, regFailed, deletedBy, warnings>>

\* release_private: std::thread t([] (cl_event evt, event_private *p) {...},
\*                                data(), m_p); t.detach();
SpawnMonitor ==
    /\ m_p # Null
    /\ Touch
    /\ ~is_finished
    /\ ~support_cb
    /\ monSpawned' = monSpawned + 1
    /\ monpc' = "wait"
    /\ UNCHANGED <<payloadVars, cbpc, cbReg, regFailed, deletedBy, warnings>>

\* event::~event, first statement: release_private()
ReleasePrivate ==
    /\ dpc = "release_private"
    /\ dpc' = "release_native"
    /\ \/ ReleaseNoPayload
       \/ ReleaseFinished
       \/ RegisterCallback
       \/ SpawnMonitor
    /\ UNCHANGED <<handleVars, nativeRef, envVars, wpc,
                   initFinished, finishCount, cfReturned,
                   retainAttempts, releaseAttempts, waitCalled>>
    /\ UNCHANGED apiVars

\* the native release made through the throwing guard: a failure leaves the
\* destructor as an exception
ReleaseNative_Throw ==
    /\ dpc = "release_native"
    /\ releaseAttempts' = releaseAttempts + 1
    /\ IF call_guarded(drvOk) = "ok"
       THEN /\ nativeRef' = nativeRef - 1
            /\ dpc' = "done"
            /\ hstate' = "destroyed"
       ELSE /\ dpc' = "threw"
            /\ UNCHANGED <<nativeRef, hstate>>
    /\ UNCHANGED <<m_p, retainArg, ctorErr, payloadVars, envVars, wpc, cbpc, monpc, dispVars,
                   initFinished, finishCount, deletedBy, uaf, cfReturned, warnings,
                   retainAttempts, waitCalled>>
    /\ UNCHANGED apiVars

\* event::~event, second statement: pyopencl_call_guarded_cleanup(clReleaseEvent, this)
ReleaseNative ==
    /\ dpc = "release_native"
    /\ dpc' = "done"
    /\ hstate' = "destroyed"
    /\ releaseAttempts' = releaseAttempts + 1
    /\ IF call_guarded_cleanup(drvOk) = "ok"
       THEN /\ nativeRef' = nativeRef - 1
            /\ UNCHANGED warnings
       ELSE /\ warnings' = warnings \cup {"clReleaseEvent"}
            /\ UNCHANGED nativeRef
    /\ UNCHANGED <<m_p, retainArg, ctorErr, payloadVars, envVars, wpc, cbpc, monpc, dispVars,
                   initFinished, finishCount, deletedBy, uaf, cfReturned,
                   retainAttempts, waitCalled>>
    /\ UNCHANGED apiVars

\* ------------------------------------------- completion callback closure
\* the driver invokes the callback registered for CL_COMPLETE
CbFire ==
    /\ cbpc = "registered"
    /\ evComplete
    /\ cbpc' = "call_finish"
    /\ UNCHANGED <<handleVars, payloadVars, nativeRef, envVars, wpc, dpc, monpc, dispVars,
                   histVars>>
    /\ UNCHANGED apiVars

\* [p] (cl_int) { p->call_finish(); ... : the atomic exchange
CbCallFinish ==
    /\ cbpc = "call_finish"
    /\ Touch
    /\ m_finished' = TRUE
    /\ cbpc' = call_finish(m_finished, "finish", "delete")
    /\ cfReturned' = (cfReturned \/ m_finished)
    /\ UNCHANGED <<handleVars, pstate, m_ward, wardRef, nativeRef, envVars, wpc, dpc, monpc,
                   dispVars, initFinished, finishCount, deletedBy,
                   warnings, retainAttempts, releaseAttempts, waitCalled>>
    /\ UNCHANGED apiVars

\* [p] (cl_int) { p->call_finish(); ... : finish()
CbFinish ==
    /\ cbpc = "finish"
    /\ Touch
    /\ finish
    /\ cbpc' = "delete"
    /\ cfReturned' = TRUE
    /\ UNCHANGED <<handleVars, pstate, m_finished, nativeRef, envVars, wpc, dpc, monpc,
                   dispVars, initFinished, deletedBy,
                   warnings, retainAttempts, releaseAttempts, waitCalled>>
    /\ UNCHANGED apiVars

\* [p] (cl_int) { ...; delete p; }
CbDelete ==
    /\ cbpc = "delete"
    /\ DeleteP("cb")
    /\ cbpc' = "done"
    /\ UNCHANGED <<handleVars, m_finished, m_ward, wardRef, nativeRef, envVars, wpc, dpc,
                   monpc, dispVars, initFinished, finishCount, uaf, cfReturned,
                   warnings, retainAttempts, releaseAttempts, waitCalled>>
    /\ UNCHANGED apiVars

\* ------------------------------------------------ detached monitor thread
\* pyopencl_call_guarded_cleanup(clWaitForEvents, len_arg(evt))
MonWait ==
    /\ monpc = "wait"
    /\ \E ok \in WaitOutcomes :
          warnings' = IF call_guarded_cleanup(ok) = "warn"
                      THEN warnings \cup {"clWaitForEvents"} ELSE warnings
    /\ monpc' = "call_finish"
    /\ UNCHANGED <<handleVars, payloadVars, nativeRef, envVars, wpc, dpc, cbpc, dispVars,
                   initFinished, finishCount, deletedBy, uaf, cfReturned,
                   retainAttempts, releaseAttempts, waitCalled>>
    /\ UNCHANGED apiVars

\* p->call_finish(): the atomic exchange
MonCallFinish ==
    /\ monpc = "call_finish"
    /\ Touch
    /\ m_finished' = TRUE
    /\ monpc' = call_finish(m_finished, "finish", "delete")
    /\ cfReturned' = (cfReturned \/ m_finished)
    /\ UNCHANGED <<handleVars, pstate, m_ward, wardRef, nativeRef, envVars, wpc, dpc, cbpc,
                   dispVars, initFinished, finishCount, deletedBy,
                   warnings, retainAttempts, releaseAttempts, waitCalled>>
    /\ UNCHANGED apiVars

\* p->call_finish(): finish()
MonFinish ==
    /\ monpc = "finish"
    /\ Touch
    /\ finish
    /\ monpc' = "delete"
    /\ cfReturned' = TRUE
    /\ UNCHANGED <<handleVars, pstate, m_finished, nativeRef, envVars, wpc, dpc, cbpc,
                   dispVars, initFinished, deletedBy,
                   warnings, retainAttempts, releaseAttempts, waitCalled>>
    /\ UNCHANGED apiVars

\* delete p
MonDelete ==
    /\ monpc = "delete"
    /\ DeleteP("mon")
    /\ monpc' = "done"
    /\ UNCHANGED <<handleVars, m_finished, m_ward, wardRef, nativeRef, envVars, wpc, dpc,
                   cbpc, dispVars, initFinished, finishCount, uaf, cfReturned,
                   warnings, retainAttempts, releaseAttempts, waitCalled>>
    /\ UNCHANGED apiVars

\* ------------------------------------------------------- specification
Next ==
    \/ NativeComplete
    \/ DriverFlip
    \/ ExternalRelease
    \/ Constructor
    \/ \E t \in Waiters : WaitBegin(t)
    \/ \E t \in Waiters : WaitNative(t)
    \/ \E t \in Waiters : WaitCallFinish(t)
    \/ \E t \in Waiters : WaitFinish(t)
    \/ \E t \in Waiters : WaitReset(t)
    \/ DtorBegin
    \/ ReleasePrivate
    \/ ReleaseNative
    \/ CbFire
    \/ CbCallFinish
    \/ CbFinish
    \/ CbDelete
    \/ MonWait
    \/ MonCallFinish
    \/ MonFinish
    \/ MonDelete

Spec == Init /\ [][Next]_vars

\* the driver delivers a registered callback once the event is complete; the
\* callback closure and the detached thread are scheduled until they end
CbStep  == CbFire \/ CbCallFinish \/ CbFinish \/ CbDelete
MonStep == MonWait \/ MonCallFinish \/ MonFinish \/ MonDelete
FairSpec == Spec /\ WF_vars(CbStep) /\ WF_vars(MonStep)

TypeOK ==
    /\ hstate \in {"none", "alive", "destroying", "destroyed", "ctor_failed"}
    /\ m_p \in {Null, "p"} /\ m_ward \in {Null, W}
    /\ pstate \in {"none", "live", "deleted"}
    /\ m_finished \in BOOLEAN /\ evComplete \in BOOLEAN /\ drvOk \in BOOLEAN
    /\ wardRef \in 0..(WardRef0 + 1) /\ nativeRef \in 0..(NativeRef0 + 1)
    /\ wpc \in [Waiters -> {"idle", "waiting", "call_finish", "finish", "returned", "threw"}]
    /\ dpc \in {"idle", "release_private", "release_native", "done"}
    /\ cbpc \in {"none", "registered", "call_finish", "finish", "delete", "done"}
    /\ monpc \in {"none", "wait", "call_finish", "finish", "delete", "done"}

\* ------------------------------------------------------ C wrapper calls
mainVars == <<handleVars, payloadVars, nativeRef, envVars, thrVars, dispVars, histVars>>

\* c_handle_error(f): an exception leaving f becomes a returned error
c_handle_error(threw) == IF threw THEN "error" ELSE "success"

\* the catch block of event__set_callback without its py::deref
SetCallbackCatch_NoDeref ==
    /\ ucb' = "failed"
    /\ UNCHANGED <<tokRef, tokReleased>>
    /\ scbRet' = c_handle_error(FALSE)

\* event__set_callback: catch (...) { py::deref(pyobj); } -- nothing is
\* rethrown, so the lambda given to c_handle_error ends normally.
\* tokRef here is the count before the py::ref of this call.
SetCallbackCatch ==
    /\ ucb' = "failed"
    /\ tokRef' = (tokRef + 1) - 1
    /\ tokReleased' = tokReleased + 1
    /\ scbRet' = c_handle_error(FALSE)

\* event__set_callback(evt, type, pyobj)
SetCallback ==
    /\ hstate = "alive"
    /\ ucb = "none"
    /\ tokTaken' = tokTaken + 1
    /\ IF set_callback = "ok"
       THEN /\ ucb' = "registered"
            /\ tokRef' = tokRef + 1
            /\ scbRet' = c_handle_error(FALSE)
            /\ UNCHANGED tokReleased
       ELSE SetCallbackCatch
    /\ UNCHANGED <<mainVars, qLast, qErr, qNative, qOut, wfeN, wfe>>

\* the registered closure, first statement: py::call(pyobj, status)
UserCbCall ==
    /\ ucb = "registered"
    /\ evComplete
    /\ ucb' = "called"
    /\ UNCHANGED <<mainVars, tokRef, tokTaken, tokReleased, scbRet,
                   qLast, qErr, qNative, qOut, wfeN, wfe>>

\* the registered closure, second statement: py::deref(pyobj)
UserCbDeref ==
    /\ ucb = "called"
    /\ ucb' = "done"
    /\ tokRef' = tokRef - 1
    /\ tokReleased' = tokReleased + 1
    /\ UNCHANGED <<mainVars, tokTaken, scbRet, qLast, qErr, qNative, qOut, wfeN, wfe>>

\* the case labels of event::get_info (CL_EVENT_CONTEXT: OpenCL >= 1.1)
EventInfoFields ==
    {"CL_EVENT_COMMAND_QUEUE", "CL_EVENT_COMMAND_TYPE",
     "CL_EVENT_COMMAND_EXECUTION_STATUS", "CL_EVENT_REFERENCE_COUNT",
     "CL_EVENT_CONTEXT"}

\* the case labels of event::get_profiling_info
ProfilingFields ==
    {"CL_PROFILING_COMMAND_QUEUED", "CL_PROFILING_COMMAND_SUBMIT",
     "CL_PROFILING_COMMAND_START", "CL_PROFILING_COMMAND_END"}

\* field values given to the queries: the recognised ones, one of the other
\* enumeration, and one that is in neither
QueryInputs == EventInfoFields \cup ProfilingFields \cup {"OUT_OF_ENUM"}

\* a switch whose default label falls into the native query
switch_no_default(cases, param, ok) ==
    [native |-> param,
     err    |-> IF call_guarded(ok) = "ok" THEN "none" ELSE "NativeApiError"]

\* switch (param) { case ...: return pyopencl_get_*_info(...);
\*                  default: throw clerror(..., CL_INVALID_VALUE); }
\* ok: the native query succeeds
switch_query(cases, param, ok) ==
    IF param \in cases
    THEN [native |-> param,
          err    |-> IF call_guarded(ok) = "ok" THEN "none" ELSE "NativeApiError"]
    ELSE [native |-> "none", err |-> "InvalidArgument"]

\* event::get_info
get_info(param, ok) == switch_query(EventInfoFields, param, ok)

\* event::get_profiling_info
get_profiling_info(param, ok) == switch_query(ProfilingFields, param, ok)

\* a query made by a caller that stores the result: the slot is assigned only
\* when the query returns (*out = evt->get_profiling_info(param))
Query(fn, param, r) ==
    /\ hstate = "alive"
    /\ qLast' = <<fn, param>>
    /\ qErr' = r.err
    /\ qNative' = r.native
    /\ qOut' = IF r.err = "none" THEN <<fn, param>> ELSE qOut
    /\ UNCHANGED <<mainVars, tokRef, tokTaken, tokReleased, ucb, scbRet, wfeN, wfe>>

GetInfo == \E param \in QueryInputs : Query("get_info", param, get_info(param, drvOk))

GetProfilingInfo ==
    \E param \in QueryInputs :
        Query("get_profiling_info", param, get_profiling_info(param, drvOk))

\* clWaitForEvents(num_events, event_list) over n references to the event:
\* CL_INVALID_VALUE when num_events is zero, otherwise as for one event
WaitForOutcomes(n) == IF n = 0 THEN {FALSE} ELSE WaitOutcomes

\* wait_for_events(_wait_for, num_wait_for): buf_from_class, then the call
WaitForEventsCall(n) ==
    /\ wfe \in {"none", "success", "error"}
    /\ n > 0 => hstate = "alive"
    /\ wfeN' = n
    /\ wfe' = "in_native"
    /\ UNCHANGED <<mainVars, tokRef, tokTaken, tokReleased, ucb, scbRet,
                   qLast, qErr, qNative, qOut>>

\* pyopencl_call_guarded(clWaitForEvents, wait_for) inside c_handle_error
WaitForEventsReturn ==
    /\ wfe = "in_native"
    /\ \E ok \in WaitForOutcomes(wfeN) :
          wfe' = c_handle_error(call_guarded(ok) = "throw")
    /\ UNCHANGED <<mainVars, tokRef, tokTaken, tokReleased, ucb, scbRet,
                   qLast, qErr, qNative, qOut, wfeN>>

CallbackNext ==
    \/ NativeComplete
    \/ DriverFlip
    \/ Constructor
    \/ SetCallback
    \/ UserCbCall
    \/ UserCbDeref

CallbackSpec == Init /\ [][CallbackNext]_vars

QueryNext ==
    \/ NativeComplete
    \/ DriverFlip
    \/ Constructor
    \/ GetInfo
    \/ GetProfilingInfo

QuerySpec == Init /\ [][QueryNext]_vars

WaitForNext ==
    \/ NativeComplete
    \/ DriverFlip
    \/ Constructor
    \/ \E n \in 0..MaxWaitFor : WaitForEventsCall(n)
    \/ WaitForEventsReturn

WaitForSpec == Init /\ [][WaitForNext]_vars

\* =================================================================== claims
InFinish == cbpc = "finish" \/ monpc = "finish" \/ \E t \in Waiters : wpc[t] = "finish"
Dispatched == cbReg > 0 \/ monSpawned > 0

\* C1: once some call_finish() has returned and no caller is still between the
\* exchange and the end of finish(), the body of finish() has been executed
\* exactly once in total and is_finished() is true.
C1_FinishExactlyOnce ==
    (cfReturned /\ ~InFinish) => (finishCount = 1 /\ is_finished)

\* C2: whenever a caller is about to execute finish() (it has won the exchange
\* in call_finish), the native event is complete, whichever path it came by and
\* whatever the native wait returned.
C2_FinishOnlyWhenComplete == InFinish => evComplete

\* C3: when wait() has returned normally on a handle with a payload, the body
\* of finish() has already run, also for a caller that lost the exchange.
\* Stated for payloads whose flag was false when constructed, so that a
\* violation is not due to the flag's initial value.
C3_WaitReturnSeesFinish ==
    \A t \in Waiters :
        (wpc[t] = "returned" /\ m_p # Null /\ ~initFinished) => finishCount >= 1

\* C4: once release_private has handed an unfinished payload to a registered
\* callback or to a monitor thread and the native event is complete, eventually
\* finish() has run exactly once and the payload has been deleted (once).
C4_DispatchedFinalizeRuns ==
    (Dispatched /\ evComplete) ~> (finishCount = 1 /\ pstate = "deleted" /\ deleteCount = 1)

C4_Witness ==
    /\ Dispatched /\ ~waitCalled /\ evComplete /\ hstate = "destroyed"
    /\ finishCount = 1 /\ pstate = "deleted"

\* C5: after the payload's finalize has run, the ward's external reference
\* count is back at its value before the Nanny Event was constructed.
C5_WardReleasedByFinalize == finishCount >= 1 => wardRef = WardRef0

\* C6: on a live Nanny Event constructed with ward W, get_ward() is W while
\* finish() has not run and nullptr once it has run.
C6_GetWardFollowsFinalize ==
    (hstate = "alive" /\ m_p # Null) =>
        get_ward = (IF finishCount = 0 THEN W ELSE Null)

\* C7: the payload is deleted at most once, is never accessed after its
\* deletion, is handed to at most one asynchronous owner, and is deleted only
\* by its owner: the constructor's catch block, the destructing thread in the
\* already-finished case, the registered callback, or the monitor thread.
C7_DeleteOnceNoUseAfter ==
    /\ deleteCount <= 1
    /\ ~uaf
    /\ cbReg + monSpawned <= 1
    /\ \A i \in 1..deleteCount :
          /\ deletedBy[i] = "cb"   => (cbReg = 1 /\ hstate \in {"destroying", "destroyed"})
          /\ deletedBy[i] = "mon"  => (monSpawned = 1 /\ hstate \in {"destroying", "destroyed"})
          /\ deletedBy[i] = "dtor" => (~Dispatched /\ hstate \in {"destroying", "destroyed"})
          /\ deletedBy[i] = "ctor" => (~Dispatched /\ hstate = "ctor_failed")

C7_Witness ==
    /\ hstate = "destroyed" /\ waitCalled
    /\ deletedBy = <<"cb">> /\ cbpc = "done"

\* C8: a constructor whose native retain failed has deleted the supplied
\* payload exactly once without running finish(), has raised NativeApiError,
\* has registered no callback and spawned no thread; with retain = false no
\* native retain is attempted and the constructor does not fail.
C8_CtorRetainFailure ==
    /\ hstate = "ctor_failed" =>
          /\ retainArg /\ retainAttempts = 1
          /\ ctorErr = "NativeApiError"
          /\ deletedBy = (IF m_p # Null THEN <<"ctor">> ELSE << >>)
          /\ pstate # "live"
          /\ finishCount = 0 /\ ~cfReturned
          /\ ~Dispatched /\ ~regFailed /\ cbpc = "none" /\ monpc = "none"
    /\ (hstate # "none" /\ ~retainArg) =>
          (retainAttempts = 0 /\ ctorErr = "none" /\ hstate # "ctor_failed")

C8_Witness ==
    hstate = "ctor_failed" /\ m_p # Null /\ deletedBy = <<"ctor">> /\ evComplete

\* C9: after callback registration failed in release_private, a warning has
\* been written, the destructor goes on to the native release (and has
\* attempted it exactly once when it is done), finish() has not run, the
\* payload is still allocated, and no callback or monitor thread exists.
C9_RegistrationFailureLeaks ==
    regFailed =>
        /\ "set_callback" \in warnings
        /\ ctorErr = "none"
        /\ finishCount = 0 /\ ~InFinish
        /\ pstate = "live" /\ deletedBy = << >>
        /\ ~Dispatched /\ cbpc = "none" /\ monpc = "none"
        /\ dpc \in {"release_native", "done"}
        /\ (dpc = "release_native" => releaseAttempts = 0 /\ ENABLED ReleaseNative)
        /\ (dpc = "done" => releaseAttempts = 1 /\ hstate = "destroyed")

C9_Witness ==
    regFailed /\ dpc = "done" /\ evComplete /\ drvOk /\ pstate = "live"

\* C10: the destructing thread is never blocked: each of the destructor's two
\* steps can be taken in every state in which the destructor stands before it,
\* whether or not the native event is complete.
C10_DtorNeverBlocks ==
    /\ dpc = "release_private" => ENABLED ReleasePrivate
    /\ dpc = "release_native" => ENABLED ReleaseNative

C10_Witness ==
    /\ dpc = "done" /\ ~evComplete /\ drvOk /\ nativeRef > 0
    /\ m_p # Null /\ finishCount = 0 /\ monSpawned = 1 /\ monpc = "wait"

\* the branch release_private has taken, read from its effects
BranchesTaken ==
    (IF m_p = Null THEN 1 ELSE 0) + (IF "dtor" \in {deletedBy[i] : i \in 1..deleteCount} THEN 1 ELSE 0)
    + cbReg + (IF regFailed THEN 1 ELSE 0) + monSpawned

\* C11: every destruction runs release_private first (exactly one of its
\* branches has been taken before clReleaseEvent is called), then calls
\* clReleaseEvent exactly once; a failure of that call ends in a warning and
\* the destructor still completes.
C11_ReleaseThenNativeOnce ==
    /\ dpc \in {"idle", "release_private", "release_native", "done"}
    /\ dpc \in {"idle", "release_private"} => (releaseAttempts = 0 /\ "clReleaseEvent" \notin warnings)
    /\ dpc = "idle" => BranchesTaken = (IF m_p = Null THEN 1 ELSE 0)
    /\ dpc = "release_native" => (releaseAttempts = 0 /\ BranchesTaken = 1)
    /\ dpc = "done" => (releaseAttempts = 1 /\ BranchesTaken = 1 /\ hstate = "destroyed")
    /\ releaseAttempts \in {0, 1}
    /\ "clReleaseEvent" \in warnings =>
          (dpc = "done" /\ hstate = "destroyed" /\ nativeRef > 0)

C11_Witness ==
    dpc = "done" /\ "clReleaseEvent" \in warnings /\ monSpawned = 1

\* C12: event__set_callback takes one reference on the token before it
\* registers; while the callback is registered and has not finished running
\* the reference is held; it has been released exactly once after the callback
\* ran, or at once when registration failed; it is never released twice.
C12_TokenReferenceBalanced ==
    /\ tokReleased <= tokTaken /\ tokTaken <= 1
    /\ tokRef = TokRef0 + tokTaken - tokReleased
    /\ ucb = "none" => (tokTaken = 0 /\ tokReleased = 0)
    /\ ucb \in {"registered", "called"} => (tokTaken = 1 /\ tokReleased = 0)
    /\ ucb \in {"done", "failed"} => (tokTaken = 1 /\ tokReleased = 1)

C12_Witness == ucb = "done" /\ tokRef = TokRef0 /\ tokReleased = 1

\* C13: when the registration made by event__set_callback has failed, the
\* call has returned an error to its caller.
C13_RegistrationFailureReturned == ucb = "failed" => scbRet = "error"

\* C14: a query step with a field outside the recognised set of its function
\* raises InvalidArgument, issues no native query and leaves the output slot
\* as it was; with a recognised field it issues the native query for that
\* field, and stores the result when the native query succeeds.
C14_QueryFieldCheck ==
    [][ (<<qLast, qErr, qNative, qOut>>' # <<qLast, qErr, qNative, qOut>>) =>
          LET fn  == qLast'[1]
              f   == qLast'[2]
              rec == IF fn = "get_info" THEN EventInfoFields ELSE ProfilingFields
          IN  IF f \notin rec
              THEN qErr' = "InvalidArgument" /\ qNative' = "none" /\ qOut' = qOut
              ELSE /\ qNative' = f
                   /\ qErr' \in {"none", "NativeApiError"}
                   /\ qErr' = "none" => qOut' = <<fn, f>>
                   /\ qErr' # "none" => qOut' = qOut ]_vars

C14_Witness ==
    /\ qLast = <<"get_profiling_info", "OUT_OF_ENUM">>
    /\ qErr = "InvalidArgument" /\ qNative = "none"
    /\ qOut = <<"get_profiling_info", "CL_PROFILING_COMMAND_END">>

\* C15: a wait_for_events call with num_wait_for = 0 that has returned has
\* returned success.
C15_EmptyWaitSucceeds ==
    (wfeN = 0 /\ wfe \in {"success", "error"}) => wfe = "success"

\* the step of the destructing thread through release_private
ReleaseStep == dpc = "release_private" /\ dpc' = "release_native"

\* C16 as stated: release_private takes one branch, chosen by the payload
\* state and the callback capability: no payload - nothing; finished - deleted
\* by the destructing thread, nothing registered or spawned; unfinished and
\* callbacks supported - one callback is registered, no thread; unfinished and
\* callbacks unsupported - one monitor thread, no callback.
C16_OneBranchAsStated ==
    [][ ReleaseStep =>
          /\ m_p = Null =>
                UNCHANGED <<deletedBy, cbReg, regFailed, monSpawned, pstate>>
          /\ (m_p # Null /\ is_finished) =>
                /\ deletedBy' = Append(deletedBy, "dtor")
                /\ UNCHANGED <<cbReg, regFailed, monSpawned>>
          /\ (m_p # Null /\ ~is_finished /\ support_cb) =>
                /\ cbReg' = cbReg + 1
                /\ UNCHANGED <<deletedBy, monSpawned, pstate>>
          /\ (m_p # Null /\ ~is_finished /\ ~support_cb) =>
                /\ monSpawned' = monSpawned + 1
                /\ UNCHANGED <<deletedBy, cbReg, regFailed, pstate>> ]_vars

\* C16 as amended: in the branch for an unfinished payload with callbacks
\* supported, one registration is attempted: either one callback is registered
\* or the registration failure is recorded; no thread is spawned either way.
C16_OneBranch ==
    [][ ReleaseStep =>
          /\ m_p = Null =>
                UNCHANGED <<deletedBy, cbReg, regFailed, monSpawned, pstate>>
          /\ (m_p # Null /\ is_finished) =>
                /\ deletedBy' = Append(deletedBy, "dtor")
                /\ UNCHANGED <<cbReg, regFailed, monSpawned>>
          /\ (m_p # Null /\ ~is_finished /\ support_cb) =>
                /\ \/ cbReg' = cbReg + 1 /\ regFailed' = regFailed
                   \/ cbReg' = cbReg /\ ~regFailed /\ regFailed'
                /\ UNCHANGED <<deletedBy, monSpawned, pstate>>
          /\ (m_p # Null /\ ~is_finished /\ ~support_cb) =>
                /\ monSpawned' = monSpawned + 1
                /\ UNCHANGED <<deletedBy, cbReg, regFailed, pstate>> ]_vars

C16_Witness ==
    /\ dpc = "release_native" /\ m_p # Null /\ support_cb
    /\ regFailed /\ cbReg = 0 /\ monSpawned = 0 /\ deletedBy = << >>

C18_MonitorHandleReferenced == monpc = "wait" => nativeRef > 0

\* C19: after a construction that failed in the native retain, the ward's
\* external reference count equals its value before the construction.
C19_FailedCtorGivesWardBack == hstate = "ctor_failed" => wardRef = WardRef0

\* C20: a live payload on which no call_finish() has been invoked yet is in the
\* not-finished state.
C20_NewPayloadUnfinished ==
    (pstate = "live" /\ finishCount = 0 /\ ~cfReturned /\ ~InFinish) => ~is_finished

====
